---------------------------- MODULE Spec2Model ----------------------------
(***************************************************************************)
(* A model of the iBuddy data-access and authorization layer:              *)
(*   app/models/user.server.ts    identity store (users, passwords)        *)
(*   app/models/mentee.server.ts  mentee and note store (one table)        *)
(*   app/routes/dashboard/mentees  the edit-mentee and send-email actions  *)
(*                                                                         *)
(* Strings that the code builds or converts (emails, ids, keys) are        *)
(* sequences of one-token strings, so that toLowerCase and the template    *)
(* literals `User#${..}`, `Mentee#${..}`, `Note#${..}` are computed.       *)
(* A stored item is a record whose DOMAIN is the set of its attributes.    *)
(* A table is the set of its items, at most one per primary key.           *)
(***************************************************************************)
EXTENDS Integers, Sequences, FiniteSets, TLC

VARIABLES
    users,      \* the users table (key: id)
    passwords,  \* the passwords table (key: userId)
    mentees,    \* the mentees table (key: pk, sk): mentee and note items
    assets,     \* the assets owned by users (asset.server.ts)
    cuidCount,  \* number of ids cuid() has handed out
    last,       \* the last completed call: its name, arguments and result
    inflight,   \* the requests in progress, each with the steps it has left
    outbox      \* the e-mails handed to sendEmail, in the order of the calls

vars == <<users, passwords, mentees, assets, cuidCount, last, inflight, outbox>>

-----------------------------------------------------------------------------
(* JavaScript values                                                       *)

\* The two absence values of JavaScript; query results are items or these.
Null == [js |-> "null"]
Undefined == [js |-> "undefined"]

\* !v for a value that is an item, null or undefined
Falsy(v) == v = Null \/ v = Undefined

\* { ...a, ...b }: the attributes of b override those of a
Spread(a, b) ==
    [k \in (DOMAIN a) \cup (DOMAIN b) |-> IF k \in DOMAIN b THEN b[k] ELSE a[k]]

\* the object without the attributes in ks (rest destructuring, Omit)
Without(a, ks) == [k \in (DOMAIN a) \ ks |-> a[k]]

\* String.prototype.toLowerCase on one character of the model's alphabet
LowerChar(c) ==
    CASE c = "A" -> "a"
      [] c = "B" -> "b"
      [] c = "C" -> "c"
      [] c = "D" -> "d"
      [] OTHER -> c

toLowerCase(s) == [i \in DOMAIN s |-> LowerChar(s[i])]

\* Array.prototype.every / items[0] on a query result held as a set
First(S) == IF S = {} THEN Undefined ELSE CHOOSE x \in S : TRUE

-----------------------------------------------------------------------------
(* The document store: arc.tables() collections                            *)

SameKey(keys, a, b) == \A k \in keys : a[k] = b[k]

\* table.put(item): insert, or replace the item with the same primary key
Put(table, keys, item) == {i \in table : ~SameKey(keys, i, item)} \cup {item}

\* table.delete(key)
Delete(table, keys, key) == {i \in table : ~SameKey(keys, i, key)}

\* table.update({Key, UpdateExpression: "set ..."}) with no ConditionExpression:
\* the attributes are set on the item with that key, and an item holding the
\* key and the set attributes is added when the table has none (UpdateItem).
Update(table, keys, key, sets) ==
    LET old == {i \in table : SameKey(keys, i, key)}
        base == IF old = {} THEN key ELSE CHOOSE i \in old : TRUE
    IN  Put(table, keys, Spread(base, sets))

UserKey == {"id"}
PasswordKey == {"userId"}
MenteeKey == {"pk", "sk"}

-----------------------------------------------------------------------------
(* Inputs                                                                  *)

\* e-mail addresses: two accounts, one of them also written with a capital
Emails == {<<"a", "b">>, <<"A", "b">>, <<"c", "d">>}

\* plaintext credentials
Plaintexts == {"p", "q"}

\* enum Role
BUDDY == "0"
HR == "1"
PRESIDENT == "2"
ADMIN == "3"
Roles == {BUDDY, HR, PRESIDENT, ADMIN}

-----------------------------------------------------------------------------
(* user.server.ts                                                          *)

\* `User#${email}`
email2UserId(email) == <<"User#">> \o email

UserIds == {email2UserId(e) : e \in Emails}

\* bcrypt.hash(password, 10): an abstract one-way function of the plaintext
bcryptHash(password) == <<"bcrypt", password>>

\* bcrypt.compare(password, hash)
bcryptCompare(password, hash) == hash = bcryptHash(password)

\* result.Items[0] of the query id = :id
getUserById(id) == First({u \in users : u.id = id})

getUserByEmail(email) == getUserById(email2UserId(email))

\* const [record] = result.Items; return record ?? null
getUserPasswordByEmail(email) ==
    LET record == First({p \in passwords : p.userId = email2UserId(email)})
    IN  IF Falsy(record) THEN Null ELSE record

\* the tables after createUser({password, email, ...userProps})
createUserPasswords(newUser) ==
    Put(passwords, PasswordKey,
        [userId |-> email2UserId(toLowerCase(newUser.email)),
         password |-> bcryptHash(newUser.password)])

createUserUsers(newUser) ==
    LET lowerEmail == toLowerCase(newUser.email)
        userProps == Without(newUser, {"password", "email"})
    IN  Put(users, UserKey,
            Spread([id |-> email2UserId(lowerEmail), email |-> lowerEmail],
                   userProps))

isEmailUniqueUser(email) == Falsy(getUserByEmail(email))

\* the users table after updateUser(updatedUser)
updateUserUsers(updatedUser) ==
    Put(users, UserKey,
        Spread([id |-> email2UserId(updatedUser.email)], updatedUser))

\* deleteUser leaving the password record in place
deleteUserPasswordsKept(id) == passwords

deleteUserPasswords(id) == Delete(passwords, PasswordKey, [userId |-> id])

deleteUserUsers(id) == Delete(users, UserKey, [id |-> id])

\* deleteUser as one transaction: either delete takes the other with it
deleteUserStepBoth(table, id) ==
    [users |-> deleteUserUsers(id), passwords |-> deleteUserPasswords(id)]

\* the two tables after one of the deletes of deleteUser(id) has completed
deleteUserStep(table, id) ==
    IF table = "passwords"
    THEN [users |-> users, passwords |-> deleteUserPasswords(id)]
    ELSE [users |-> deleteUserUsers(id), passwords |-> passwords]

\* verifyLogin looking the e-mail up as typed
verifyLoginAsTyped(email, password) ==
    LET userPassword == getUserPasswordByEmail(email)
    IN  IF Falsy(userPassword)
        THEN Null
        ELSE IF bcryptCompare(password, userPassword.password)
             THEN getUserByEmail(email)
             ELSE Null

\* verifyLogin handing on the failed lookup of an unknown e-mail
verifyLoginUnknownUndefined(email, password) ==
    LET maybeEmailInDb == toLowerCase(email)
        userPassword == First({p \in passwords :
                               p.userId = email2UserId(maybeEmailInDb)})
    IN  IF Falsy(userPassword)
        THEN userPassword
        ELSE IF bcryptCompare(password, userPassword.password)
             THEN getUserByEmail(maybeEmailInDb)
             ELSE Null

verifyLogin(email, password) ==
    LET maybeEmailInDb == toLowerCase(email)
        userPassword == getUserPasswordByEmail(maybeEmailInDb)
    IN  IF Falsy(userPassword)
        THEN Null
        ELSE IF bcryptCompare(password, userPassword.password)
             THEN getUserByEmail(maybeEmailInDb)
             ELSE Null

-----------------------------------------------------------------------------
(* Calls on the identity store.  Each call runs to completion.             *)

CreateUser(email, password, role) ==
    LET newUser == [email |-> email, password |-> password, role |-> role]
    IN  /\ passwords' = createUserPasswords(newUser)
        /\ users' = createUserUsers(newUser)
        \* const user = await getUserById(userId), read from the new table
        /\ last' = [op |-> "createUser", email |-> email, password |-> password,
                    result |-> First({u \in users' :
                        u.id = email2UserId(toLowerCase(email))})]
        /\ UNCHANGED <<inflight, outbox, mentees, assets, cuidCount>>

UpdateUser(email, role) ==
    LET updatedUser == [email |-> email, role |-> role]
    IN  /\ users' = updateUserUsers(updatedUser)
        /\ last' = [op |-> "updateUser", email |-> email]
        /\ UNCHANGED <<inflight, outbox, passwords, mentees, assets, cuidCount>>

DeleteUser(id) ==
    /\ passwords' = deleteUserPasswords(id)
    /\ users' = deleteUserUsers(id)
    /\ last' = [op |-> "deleteUser", id |-> id]
    /\ UNCHANGED <<inflight, outbox, mentees, assets, cuidCount>>

DeleteUserByEmail(email) ==
    /\ passwords' = deleteUserPasswords(email2UserId(email))
    /\ users' = deleteUserUsers(email2UserId(email))
    /\ last' = [op |-> "deleteUserByEmail", email |-> email]
    /\ UNCHANGED <<inflight, outbox, mentees, assets, cuidCount>>

VerifyLogin(email, password) ==
    /\ last' = [op |-> "verifyLogin", email |-> email, password |-> password,
                result |-> verifyLogin(email, password)]
    /\ UNCHANGED <<inflight, outbox, users, passwords, mentees, assets, cuidCount>>

Init ==
    /\ users = {}
    /\ passwords = {}
    /\ mentees = {}
    /\ assets = {}
    /\ cuidCount = 0
    /\ last = [op |-> "none"]
    /\ inflight = {}
    /\ outbox = <<>>

NextUsers ==
    \/ \E e \in Emails, p \in Plaintexts, r \in Roles : CreateUser(e, p, r)
    \/ \E e \in Emails, r \in Roles : UpdateUser(e, r)
    \/ \E id \in UserIds : DeleteUser(id)
    \/ \E e \in Emails : DeleteUserByEmail(e)
    \/ \E e \in Emails, p \in Plaintexts : VerifyLogin(e, p)

\* the identity store under any sequence of its calls
SpecUsers == Init /\ [][NextUsers]_vars

-----------------------------------------------------------------------------
(* mentee.server.ts                                                        *)

\* const MENTEE_STATUS
MENTEE_STATUS ==
    {"assigned", "contacted", "in_touch", "arrived", "met", "rejected",
     "unresponsive", "served"}

\* the n-th id handed out by cuid()
cuid(n) == <<"c", ToString(n)>>

id2pk(id) == <<"Mentee#">> \o id

id2NoteSk(id) == <<"Note#">> \o id

\* ${note.id} in a template literal: "undefined" when the item has no id
noteIdText(note) == IF "id" \in DOMAIN note THEN note.id ELSE <<"undefined">>

\* begins_with(sk, prefix)
beginsWith(sk, prefix) == Len(sk) >= 1 /\ Head(sk) = prefix

isMenteeItem(i) == i.pk = i.sk

isNoteItem(i) == beginsWith(i.sk, "Note#")

getMenteeById(id) ==
    First({i \in mentees : i.pk = id2pk(id) /\ i.sk = id2pk(id)})

getAllMentees == {i \in mentees : beginsWith(i.sk, "Mentee#")}

\* the index menteesByBuddyId holds the items that have a buddyId
getMenteeListItems(buddyId) ==
    {i \in mentees : "buddyId" \in DOMAIN i /\ i.buddyId = buddyId}

getMenteeCount(buddyId) == Cardinality(getMenteeListItems(buddyId))

\* the index menteeByEmail holds the items that have an email
isEmailUnique(email) ==
    Cardinality({i \in mentees : "email" \in DOMAIN i /\ i.email = email}) = 0

getNotesOfMentee(menteeId) ==
    {i \in mentees : i.pk = id2pk(menteeId) /\ beginsWith(i.sk, "Note#")}

getNote(menteeId, noteId) ==
    LET found == {i \in mentees :
                    i.pk = id2pk(menteeId) /\ i.sk = id2NoteSk(noteId)}
    IN  IF found = {} THEN Undefined ELSE CHOOSE i \in found : TRUE

\* new Date().toISOString()
nowISO == <<"now">>

\* the item createMentee(newMentee) puts, id being the fresh cuid()
createMenteeItem(id, newMentee) ==
    Spread(Spread([pk |-> id2pk(id), sk |-> id2pk(id), id |-> id,
                   status |-> "assigned"],
                  newMentee),
           [email |-> toLowerCase(newMentee.email)])

\* the item updateMentee(updatedMentee) puts
updateMenteeItem(updatedMentee) ==
    Spread([pk |-> id2pk(updatedMentee.id), sk |-> id2pk(updatedMentee.id)],
           updatedMentee)

\* updateMenteeStatus as a put of the key and the status alone
updateMenteeStatusReplace(menteeId, newStatus) ==
    Put(mentees, MenteeKey,
        [pk |-> id2pk(menteeId), sk |-> id2pk(menteeId), status |-> newStatus])

\* updateMenteeStatus with "served" as a final status
updateMenteeStatusGuarded(menteeId, newStatus) ==
    IF \E i \in mentees : /\ i.pk = id2pk(menteeId) /\ i.sk = id2pk(menteeId)
                          /\ "status" \in DOMAIN i /\ i.status = "served"
    THEN mentees
    ELSE Update(mentees, MenteeKey,
                [pk |-> id2pk(menteeId), sk |-> id2pk(menteeId)],
                [status |-> newStatus])

\* the table after updateMenteeStatus(menteeId, newStatus)
updateMenteeStatusTable(menteeId, newStatus) ==
    Update(mentees, MenteeKey,
           [pk |-> id2pk(menteeId), sk |-> id2pk(menteeId)],
           [status |-> newStatus])

\* the keys deleteMentee(menteeId) deletes: the mentee's, and one per note read
deleteMenteeKeys(menteeId) ==
    {[pk |-> id2pk(menteeId), sk |-> id2pk(menteeId)]}
        \cup {[pk |-> id2pk(menteeId), sk |-> id2NoteSk(noteIdText(note))] :
                note \in getNotesOfMentee(menteeId)}

\* the table after deleteMentee(menteeId)
deleteMenteeTable(menteeId) ==
    {i \in mentees :
        \A key \in deleteMenteeKeys(menteeId) : ~SameKey(MenteeKey, i, key)}

\* the item createNote({menteeId, content, authorId}) puts
createNoteItem(id, menteeId, content, authorId) ==
    [pk |-> id2pk(menteeId), sk |-> id2NoteSk(id), id |-> id,
     content |-> content, authorId |-> authorId, createdAt |-> nowISO]

\* the table after updateNote({menteeId, noteId, content})
updateNoteTable(menteeId, noteId, content) ==
    Update(mentees, MenteeKey,
           [pk |-> id2pk(menteeId), sk |-> id2NoteSk(noteId)],
           [content |-> content, updatedAt |-> nowISO])

\* the table after deleteNote({menteeId, noteId})
deleteNoteTable(menteeId, noteId) ==
    Delete(mentees, MenteeKey,
           [pk |-> id2pk(menteeId), sk |-> id2NoteSk(noteId)])

\* canUserMutateMentee letting only an admin through
canUserMutateMenteeAdminOnly(user) == user.role = ADMIN

\* canUserMutateNote letting only the author through
canUserMutateNoteAuthorOnly(user, note) == user.id = note.authorId

canUserMutateMentee(user) == user.role # BUDDY

canUserMutateNote(user, note) ==
    user.id = note.authorId \/ user.role # BUDDY

-----------------------------------------------------------------------------
(* user.server.ts: canUserDeleteUser                                       *)

\* asset.server.ts getUserAssetCount: the number of assets the user owns
getUserAssetCount(userId) == Cardinality({a \in assets : a.ownerId = userId})

\* the UTF-16 code unit of a role's one character
charCode(c) ==
    CASE c = "0" -> 48
      [] c = "1" -> 49
      [] c = "2" -> 50
      [] c = "3" -> 51

\* a > b on two one-character strings
stringGreater(a, b) == charCode(a) > charCode(b)

\* canUserDeleteUser with isHigher computed by >=
canUserDeleteUserGte(loggedInUser, userToDelete) ==
    IF ~(loggedInUser.id # userToDelete.id)
    THEN [canDelete |-> FALSE, reason |-> "You can not delete yourself"]
    ELSE IF ~(userToDelete.role # ADMIN)
    THEN [canDelete |-> FALSE, reason |-> "You can not delete an admin"]
    ELSE IF stringGreater(userToDelete.role, loggedInUser.role)
    THEN [canDelete |-> FALSE,
          reason |-> "You can only delete users with a lower role than you"]
    ELSE IF getMenteeCount(userToDelete.id) > 0
    THEN [canDelete |-> FALSE,
          reason |-> "You can not delete a user with active mentees"]
    ELSE IF getUserAssetCount(userToDelete.id) > 0
    THEN [canDelete |-> FALSE,
          reason |-> "You can not delete a user who has assets"]
    ELSE [canDelete |-> TRUE, reason |-> ""]

\* canUserDeleteUser testing the target's role before the self-deletion
canUserDeleteUserAdminFirst(loggedInUser, userToDelete) ==
    IF ~(userToDelete.role # ADMIN)
    THEN [canDelete |-> FALSE, reason |-> "You can not delete an admin"]
    ELSE IF ~(loggedInUser.id # userToDelete.id)
    THEN [canDelete |-> FALSE, reason |-> "You can not delete yourself"]
    ELSE IF ~stringGreater(loggedInUser.role, userToDelete.role)
    THEN [canDelete |-> FALSE,
          reason |-> "You can only delete users with a lower role than you"]
    ELSE IF getMenteeCount(userToDelete.id) > 0
    THEN [canDelete |-> FALSE,
          reason |-> "You can not delete a user with active mentees"]
    ELSE IF getUserAssetCount(userToDelete.id) > 0
    THEN [canDelete |-> FALSE,
          reason |-> "You can not delete a user who has assets"]
    ELSE [canDelete |-> TRUE, reason |-> ""]

\* canUserDeleteUser comparing the roles before testing for an admin
canUserDeleteUserOrderFirst(loggedInUser, userToDelete) ==
    IF ~(loggedInUser.id # userToDelete.id)
    THEN [canDelete |-> FALSE, reason |-> "You can not delete yourself"]
    ELSE IF ~stringGreater(loggedInUser.role, userToDelete.role)
    THEN [canDelete |-> FALSE,
          reason |-> "You can only delete users with a lower role than you"]
    ELSE IF ~(userToDelete.role # ADMIN)
    THEN [canDelete |-> FALSE, reason |-> "You can not delete an admin"]
    ELSE IF getMenteeCount(userToDelete.id) > 0
    THEN [canDelete |-> FALSE,
          reason |-> "You can not delete a user with active mentees"]
    ELSE IF getUserAssetCount(userToDelete.id) > 0
    THEN [canDelete |-> FALSE,
          reason |-> "You can not delete a user who has assets"]
    ELSE [canDelete |-> TRUE, reason |-> ""]

canUserDeleteUser(loggedInUser, userToDelete) ==
    IF ~(loggedInUser.id # userToDelete.id)
    THEN [canDelete |-> FALSE, reason |-> "You can not delete yourself"]
    ELSE IF ~(userToDelete.role # ADMIN)
    THEN [canDelete |-> FALSE, reason |-> "You can not delete an admin"]
    ELSE IF ~stringGreater(loggedInUser.role, userToDelete.role)
    THEN [canDelete |-> FALSE,
          reason |-> "You can only delete users with a lower role than you"]
    ELSE IF getMenteeCount(userToDelete.id) > 0
    THEN [canDelete |-> FALSE,
          reason |-> "You can not delete a user with active mentees"]
    ELSE IF getUserAssetCount(userToDelete.id) > 0
    THEN [canDelete |-> FALSE,
          reason |-> "You can not delete a user who has assets"]
    ELSE [canDelete |-> TRUE, reason |-> ""]

-----------------------------------------------------------------------------
(* Calls on the mentee store.  Each call runs to completion.               *)

\* how many ids cuid() hands out in a behaviour
MaxCuids == 2

\* how many items the mentees table holds
MaxItems == 3

CuidInputs == {cuid(n) : n \in 1..MaxCuids}

CreateMentee(newMentee) ==
    LET id == cuid(cuidCount + 1)
    IN  /\ cuidCount < MaxCuids
        /\ cuidCount' = cuidCount + 1
        /\ mentees' = Put(mentees, MenteeKey, createMenteeItem(id, newMentee))
        /\ Cardinality(mentees') <= MaxItems
        /\ last' = [op |-> "createMentee", id |-> id]
        /\ UNCHANGED <<inflight, outbox, users, passwords, assets>>

UpdateMentee(updatedMentee) ==
    /\ mentees' = Put(mentees, MenteeKey, updateMenteeItem(updatedMentee))
    /\ Cardinality(mentees') <= MaxItems
    /\ last' = [op |-> "updateMentee", id |-> updatedMentee.id]
    /\ UNCHANGED <<inflight, outbox, users, passwords, assets, cuidCount>>

UpdateMenteeStatus(menteeId, newStatus) ==
    /\ mentees' = updateMenteeStatusTable(menteeId, newStatus)
    /\ Cardinality(mentees') <= MaxItems
    /\ last' = [op |-> "updateMenteeStatus", id |-> menteeId,
                status |-> newStatus]
    /\ UNCHANGED <<inflight, outbox, users, passwords, assets, cuidCount>>

DeleteMentee(menteeId) ==
    /\ mentees' = deleteMenteeTable(menteeId)
    /\ last' = [op |-> "deleteMentee", id |-> menteeId]
    /\ UNCHANGED <<inflight, outbox, users, passwords, assets, cuidCount>>

CreateNote(menteeId, content, authorId) ==
    LET id == cuid(cuidCount + 1)
    IN  /\ cuidCount < MaxCuids
        /\ cuidCount' = cuidCount + 1
        /\ mentees' = Put(mentees, MenteeKey,
                          createNoteItem(id, menteeId, content, authorId))
        /\ Cardinality(mentees') <= MaxItems
        /\ last' = [op |-> "createNote", id |-> menteeId]
        /\ UNCHANGED <<inflight, outbox, users, passwords, assets>>

UpdateNote(menteeId, noteId, content) ==
    /\ mentees' = updateNoteTable(menteeId, noteId, content)
    /\ Cardinality(mentees') <= MaxItems
    /\ last' = [op |-> "updateNote", id |-> menteeId]
    /\ UNCHANGED <<inflight, outbox, users, passwords, assets, cuidCount>>

DeleteNote(menteeId, noteId) ==
    /\ mentees' = deleteNoteTable(menteeId, noteId)
    /\ last' = [op |-> "deleteNote", id |-> menteeId]
    /\ UNCHANGED <<inflight, outbox, users, passwords, assets, cuidCount>>

\* what a caller may pass although the parameter type leaves it out
NoExtra == [k \in {} |-> TRUE]
ExtraFields == {NoExtra, [status |-> "served"]}

NewMentees ==
    {Spread([email |-> <<"A", "b">>, buddyId |-> email2UserId(<<"a", "b">>)], x) :
        x \in ExtraFields}

StatusInputs == {"contacted"}

UpdatedMentees ==
    {[id |-> id, email |-> <<"a", "b">>,
      buddyId |-> email2UserId(<<"a", "b">>), status |-> st] :
        id \in CuidInputs, st \in StatusInputs}

NextMentees ==
    \/ \E m \in NewMentees : CreateMentee(m)
    \/ \E m \in UpdatedMentees : UpdateMentee(m)
    \/ \E id \in CuidInputs, st \in StatusInputs : UpdateMenteeStatus(id, st)
    \/ \E id \in CuidInputs : DeleteMentee(id)
    \/ \E id \in CuidInputs : CreateNote(id, "c1", email2UserId(<<"a", "b">>))
    \/ \E id \in CuidInputs, n \in CuidInputs : UpdateNote(id, n, "c2")
    \/ \E id \in CuidInputs, n \in CuidInputs : DeleteNote(id, n)

\* the mentee store under any sequence of its calls
SpecMentees == Init /\ [][NextMentees]_vars

-----------------------------------------------------------------------------
(* Authorization of a user deletion, over the stores it reads              *)

\* how many assets exist
MaxAssets == 1

AssetIds == 1..MaxAssets

\* asset.server.ts: an asset is created for its owner
CreateAsset(assetId, ownerId) ==
    /\ \A a \in assets : a.id # assetId
    /\ assets' = assets \cup {[id |-> assetId, ownerId |-> ownerId]}
    /\ last' = [op |-> "createAsset"]
    /\ UNCHANGED <<inflight, outbox, users, passwords, mentees, cuidCount>>

\* asset.server.ts: an asset is deleted
DeleteAsset(assetId) ==
    /\ \E a \in assets : a.id = assetId
    /\ assets' = {a \in assets : a.id # assetId}
    /\ last' = [op |-> "deleteAsset"]
    /\ UNCHANGED <<inflight, outbox, users, passwords, mentees, cuidCount>>

CanUserDeleteUser(loggedInUser, userToDelete) ==
    /\ last' = [op |-> "canUserDeleteUser", loggedInUser |-> loggedInUser,
                userToDelete |-> userToDelete,
                result |-> canUserDeleteUser(loggedInUser, userToDelete)]
    /\ UNCHANGED <<inflight, outbox, users, passwords, mentees, assets, cuidCount>>

\* the User objects handed to canUserDeleteUser
UserObjects == {[id |-> id, role |-> r] : id \in UserIds, r \in Roles}

BuddyIds == {email2UserId(<<"a", "b">>), email2UserId(<<"c", "d">>)}

AssignedMentees == {[email |-> <<"a", "b">>, buddyId |-> b] : b \in BuddyIds}

NextAuth ==
    \/ \E m \in AssignedMentees : CreateMentee(m)
    \/ \E id \in CuidInputs : DeleteMentee(id)
    \/ \E a \in AssetIds, o \in BuddyIds : CreateAsset(a, o)
    \/ \E a \in AssetIds : DeleteAsset(a)
    \/ \E u \in UserObjects, t \in UserObjects : CanUserDeleteUser(u, t)

\* canUserDeleteUser over the mentee assignments and assets it counts
SpecAuth == Init /\ [][NextAuth]_vars

\* Every call of the three groups on one store.  The identity store and the
\* mentee store share no table, and canUserDeleteUser only reads, so the
\* properties are checked under SpecUsers, SpecMentees and SpecAuth, whose
\* state spaces TLC exhausts; that of Spec is their product.
Next == NextUsers \/ NextMentees \/ NextAuth

Spec == Init /\ [][Next]_vars

-----------------------------------------------------------------------------
(* Properties of canUserDeleteUser                                         *)

\* The order BUDDY < HR < PRESIDENT < ADMIN
RoleRank(r) ==
    CASE r = BUDDY -> 0
      [] r = HR -> 1
      [] r = PRESIDENT -> 2
      [] r = ADMIN -> 3

Rule1(actor, target) == actor.id # target.id
Rule2(actor, target) == target.role # ADMIN
Rule3(actor, target) == RoleRank(actor.role) > RoleRank(target.role)
Rule4(actor, target) == getMenteeCount(target.id) = 0
Rule5(actor, target) == getUserAssetCount(target.id) = 0

\* C1: canUserDeleteUser returns canDelete = TRUE with an empty reason exactly
\* when all five rules hold, and canDelete = FALSE in every other case.
C1_CanDeleteIffAllRules ==
    last.op = "canUserDeleteUser" =>
        LET a == last.loggedInUser
            t == last.userToDelete
            all == /\ Rule1(a, t) /\ Rule2(a, t) /\ Rule3(a, t)
                   /\ Rule4(a, t) /\ Rule5(a, t)
        IN  /\ last.result.canDelete \in BOOLEAN
            /\ last.result.canDelete <=> all
            /\ last.result.canDelete => last.result.reason = ""

\* a deletion was allowed while another user has a mentee and one has an asset
C1_Witness ==
    /\ last.op = "canUserDeleteUser"
    /\ last.result.canDelete
    /\ \E b \in BuddyIds : getMenteeCount(b) > 0
    /\ \E b \in BuddyIds : getUserAssetCount(b) > 0

\* C2: a denial carries the message of the first violated rule, in the order
\* self-deletion, admin target, role order, mentees, assets.
C2_ReasonOfFirstViolatedRule ==
    (last.op = "canUserDeleteUser" /\ ~last.result.canDelete) =>
        LET a == last.loggedInUser
            t == last.userToDelete
            reason == last.result.reason
        IN  /\ reason = "You can not delete yourself" <=> ~Rule1(a, t)
            /\ reason = "You can not delete an admin"
                  <=> (Rule1(a, t) /\ ~Rule2(a, t))
            /\ reason = "You can only delete users with a lower role than you"
                  <=> (Rule1(a, t) /\ Rule2(a, t) /\ ~Rule3(a, t))
            /\ reason = "You can not delete a user with active mentees"
                  <=> (Rule1(a, t) /\ Rule2(a, t) /\ Rule3(a, t) /\ ~Rule4(a, t))
            /\ reason = "You can not delete a user who has assets"
                  <=> (Rule1(a, t) /\ Rule2(a, t) /\ Rule3(a, t) /\ Rule4(a, t)
                       /\ ~Rule5(a, t))

\* an ADMIN asked to delete itself: rules 1, 2 and 3 are all violated
C2_Witness ==
    /\ last.op = "canUserDeleteUser"
    /\ last.loggedInUser.role = ADMIN
    /\ last.loggedInUser.id = last.userToDelete.id
    /\ last.userToDelete.role = ADMIN
    /\ last.result.reason = "You can not delete yourself"

HRDeletesAdmin ==
    /\ last.op = "canUserDeleteUser"
    /\ last.loggedInUser.role = HR
    /\ last.userToDelete.role = ADMIN
    /\ last.loggedInUser.id # last.userToDelete.id

\* C3 as stated: an HR actor deleting another user who is ADMIN is denied
\* with the role-order reason.
C3_HRDeletesAdminRoleOrderReason ==
    HRDeletesAdmin =>
        /\ ~last.result.canDelete
        /\ last.result.reason
              = "You can only delete users with a lower role than you"

\* C3 amended: an HR actor deleting another user who is ADMIN is denied with
\* the reason of rule 2, "You can not delete an admin".
C3_HRDeletesAdminAdminReason ==
    HRDeletesAdmin =>
        /\ ~last.result.canDelete
        /\ last.result.reason = "You can not delete an admin"

\* an HR actor has asked to delete another user who is ADMIN
C3_Witness == HRDeletesAdmin /\ ~last.result.canDelete

-----------------------------------------------------------------------------
(* Properties of the identity store                                        *)

SameUpToCase(e1, e2) == toLowerCase(e1) = toLowerCase(e2)

HasPassword(email) ==
    \E r \in passwords : r.userId = email2UserId(toLowerCase(email))

CredentialMatches(email, password) ==
    \E r \in passwords : /\ r.userId = email2UserId(toLowerCase(email))
                         /\ r.password = bcryptHash(password)

\* C4: once createUser(e, p) has completed, verifyLogin(e', p) returns the
\* created user for every e' equal to e up to letter case, and
\* verifyLogin(e', q) returns null for every other plaintext q.
C4_LoginAfterCreate ==
    last.op = "createUser" =>
        \A e \in Emails : SameUpToCase(e, last.email) =>
            /\ last.result \in users
            /\ last.result.email = toLowerCase(last.email)
            /\ verifyLogin(e, last.password) = last.result
            /\ \A q \in Plaintexts \ {last.password} : verifyLogin(e, q) = Null

\* createUser was called with a capitalised e-mail; the lower-case spelling
\* is another input that must log in
C4_Witness ==
    /\ last.op = "createUser"
    /\ last.email # toLowerCase(last.email)
    /\ verifyLogin(toLowerCase(last.email), last.password) \in users

\* C5: for every e-mail and store state, getUserByEmail(email) returns what
\* getUserById("User#" + lowercase(email)) returns.
C5_ByEmailIsByLowercasedId ==
    \A e \in Emails :
        getUserByEmail(e) = getUserById(email2UserId(toLowerCase(e)))

\* C6: every user record has id "User#" + lowercase(its email), and no two
\* user records have the same email.
C6_UserIdFromLowercasedEmail ==
    /\ \A u \in users : u.id = email2UserId(toLowerCase(u.email))
    /\ \A u, v \in users : u.email = v.email => u = v

\* C7: a verifyLogin whose credential does not match returns null and leaves
\* the store as it was, whether the account exists or not; so an unknown
\* e-mail and a known one with a wrong password give the same result.
C7_LoginFailuresAlike ==
    [][ /\ (last'.op = "verifyLogin"
              /\ ~CredentialMatches(last'.email, last'.password))
            => /\ last'.result = Null
               /\ users' = users
               /\ passwords' = passwords
        /\ \A e1, e2 \in Emails, q \in Plaintexts :
              (~HasPassword(e1) /\ HasPassword(e2) /\ ~CredentialMatches(e2, q))
                  => verifyLogin(e1, q) = verifyLogin(e2, q) ]_vars

\* a login on an existing account with the wrong password has failed, while
\* another e-mail has no account
C7_Witness ==
    /\ last.op = "verifyLogin"
    /\ last.result = Null
    /\ HasPassword(last.email)
    /\ ~Falsy(getUserByEmail(toLowerCase(last.email)))
    /\ ~CredentialMatches(last.email, last.password)
    /\ \E e \in Emails : ~HasPassword(e)

-----------------------------------------------------------------------------
(* Properties of the mentee store                                          *)

\* C8: the mentee that createMentee persists, and returns from its read-back
\* of the persisted item, has status "assigned", whatever the input carries.
C8_CreatedStatusAssigned ==
    last.op = "createMentee" =>
        /\ ~Falsy(getMenteeById(last.id))
        /\ getMenteeById(last.id).status = "assigned"

OtherPartitions(table, menteeId) == {i \in table : i.pk # id2pk(menteeId)}

\* C9: once deleteMentee(id) has returned for an existing mentee,
\* getNotesOfMentee(id) is empty and getMenteeById(id) is absent, and the
\* items of every other mentee are as they were.
C9_DeleteMenteeCascades ==
    [][ \A id \in CuidInputs :
          (/\ last' = [op |-> "deleteMentee", id |-> id]
           /\ ~Falsy(getMenteeById(id))) =>
              /\ getNotesOfMentee(id)' = {}
              /\ Falsy(getMenteeById(id)')
              /\ OtherPartitions(mentees', id) = OtherPartitions(mentees, id)
      ]_vars

\* a note item as createNote puts it: it carries the id its sort key is made of
PutByCreateNote(note) == "id" \in DOMAIN note /\ note.sk = id2NoteSk(note.id)

\* the cascade of deleteMentee over a partition whose notes createNote put
DeleteMenteeCascadesCreatedNotes ==
    [][ \A id \in CuidInputs :
          (/\ last' = [op |-> "deleteMentee", id |-> id]
           /\ \A note \in getNotesOfMentee(id) : PutByCreateNote(note)) =>
              /\ getNotesOfMentee(id)' = {}
              /\ Falsy(getMenteeById(id)')
              /\ OtherPartitions(mentees', id) = OtherPartitions(mentees, id)
      ]_vars

\* C10: every note item shares its partition key with an existing mentee
\* item (pk = sk): no note exists without its parent mentee.
C10_NoOrphanNotes ==
    \A note \in mentees : isNoteItem(note) =>
        \E m \in mentees : isMenteeItem(m) /\ m.pk = note.pk

\* a mentee record stored with the e-mail e, whatever its letter-casing
MenteeWithEmail(e) ==
    \E m \in mentees :
        isMenteeItem(m) /\ "email" \in DOMAIN m /\ SameUpToCase(m.email, e)

\* C11: isEmailUnique(e) is FALSE for every letter-casing of e while a mentee
\* record created with that e-mail (up to case) exists, and TRUE when none
\* exists.
C11_IsEmailUniqueAnyCasing ==
    \A e \in Emails : isEmailUnique(e) <=> ~MenteeWithEmail(e)

-----------------------------------------------------------------------------
(* routes/dashboard/mentees/$menteeId.edit.tsx: the edit-mentee action     *)

\* an agreement end date, as it compares with the clock
DateInputs == {"past", "future"}

\* new Date(d) > new Date()
isFutureDate(d) == d = "future"

\* getBuddyById: the user, unless absent or with an agreement that has ended
getBuddyById(id) ==
    LET buddy == getUserById(id)
    IN  IF Falsy(buddy)
        THEN Null
        ELSE IF /\ "agreementEndDate" \in DOMAIN buddy
                /\ isFutureDate(buddy.agreementEndDate)
             THEN buddy
             ELSE Null

\* user.server.ts getBuddyByEmail: getBuddyById of the id built from the e-mail
getBuddyByEmail(email) == getBuddyById(email2UserId(email))

\* utils/country countries: the options, each with a label and a code
countries == {[label |-> "Iran", code |-> "IR"]}

\* utils/country getCountryCodeFromName: the code of the option so labelled
getCountryCodeFromName(country) ==
    LET found == {c \in countries : c.label = country}
    IN  IF found = {} THEN Undefined ELSE [code |-> (CHOOSE c \in found : TRUE).code]

\* utils/validation validateAction: the parsed form, or the schema's errors
\* (Zod.name rejects an empty first name)
validateAction(form) ==
    IF form.firstName = ""
    THEN [formData |-> Null, errors |-> [firstName |-> "First name is required"]]
    ELSE [formData |-> form, errors |-> Null]

\* the object the action hands to updateMentee
editedMentee(menteeId, formData) ==
    Spread([id |-> menteeId,
            countryCode |-> getCountryCodeFromName(formData.country).code,
            buddyId |-> getBuddyByEmail(formData.buddyEmail).id],
           Without(formData, {"country", "buddyEmail"}))

\* the action without its check of the requester's role
editActionAnyRole(user, menteeId, form) ==
    IF ~Falsy(validateAction(form).errors)
    THEN [kind |-> "json", status |-> 400,
          errors |-> validateAction(form).errors]
    ELSE IF Falsy(getCountryCodeFromName(form.country))
    THEN [kind |-> "json", status |-> 400,
          errors |-> [country |-> "Invalid country"]]
    ELSE IF Falsy(getBuddyByEmail(form.buddyEmail))
    THEN [kind |-> "throw", message |-> "Buddy does not exist"]
    ELSE [kind |-> "redirect", status |-> 302]

\* How the action ends: invariant() throws, json() and redirect() return.
editAction(user, menteeId, form) ==
    IF ~(user.role # BUDDY)
    THEN [kind |-> "throw", message |-> "Forbidden"]
    ELSE IF ~Falsy(validateAction(form).errors)
    THEN [kind |-> "json", status |-> 400,
          errors |-> validateAction(form).errors]
    ELSE IF Falsy(getCountryCodeFromName(form.country))
    THEN [kind |-> "json", status |-> 400,
          errors |-> [country |-> "Invalid country"]]
    ELSE IF Falsy(getBuddyByEmail(form.buddyEmail))
    THEN [kind |-> "throw", message |-> "Buddy does not exist"]
    ELSE [kind |-> "redirect", status |-> 302]

EditMentee(user, menteeId, form) ==
    LET response == editAction(user, menteeId, form)
    IN  /\ mentees' = IF response.kind = "redirect"
                      THEN Put(mentees, MenteeKey,
                               updateMenteeItem(editedMentee(menteeId, form)))
                      ELSE mentees
        /\ Cardinality(mentees') <= MaxItems
        /\ last' = [op |-> "editMentee", id |-> menteeId, user |-> user,
                    form |-> form, response |-> response]
        /\ UNCHANGED <<inflight, outbox, users, passwords, assets, cuidCount>>

\* createUser for a user with an agreement end date
CreateUserWithAgreement(email, password, role, agreementEndDate) ==
    LET newUser == [email |-> email, password |-> password, role |-> role,
                    agreementEndDate |-> agreementEndDate]
    IN  /\ passwords' = createUserPasswords(newUser)
        /\ users' = createUserUsers(newUser)
        /\ last' = [op |-> "createUser", email |-> email]
        /\ UNCHANGED <<inflight, outbox, mentees, assets, cuidCount>>

\* the new-mentee request: createMentee only once isEmailUnique returned true
CreateMenteeIfUnique(newMentee) ==
    /\ isEmailUnique(newMentee.email)
    /\ CreateMentee(newMentee)

\* the users requireUser(request) hands to the action
EditingUsers ==
    {[id |-> email2UserId(<<"a", "b">>), role |-> r] : r \in {BUDDY, HR}}

EditForms ==
    [firstName : {"F", ""}, email : {<<"a", "b">>, <<"c", "d">>},
     country : {"Iran", "Nowhere"}, buddyEmail : {<<"a", "b">>}]

UniqueNewMentees ==
    {[email |-> e, buddyId |-> email2UserId(<<"a", "b">>)] :
        e \in {<<"a", "b">>, <<"c", "d">>}}

NextEdit ==
    \/ \E d \in DateInputs : CreateUserWithAgreement(<<"a", "b">>, "p", BUDDY, d)
    \/ \E m \in UniqueNewMentees : CreateMenteeIfUnique(m)
    \/ \E id \in CuidInputs, st \in StatusInputs : UpdateMenteeStatus(id, st)
    \/ \E u \in EditingUsers, id \in CuidInputs, f \in EditForms :
          EditMentee(u, id, f)

\* the edit-mentee action among the calls that create mentees and set a status
SpecEdit == Init /\ [][NextEdit]_vars

\* C12: when every createMentee(m) follows an isEmailUnique(m.email) that
\* returned true, no two mentee records have the same e-mail, in any reachable
\* state, edits included.
C12_MenteeEmailsUnique ==
    \A m1 \in mentees : \A m2 \in mentees :
        (/\ isMenteeItem(m1) /\ isMenteeItem(m2)
         /\ "email" \in DOMAIN m1 /\ "email" \in DOMAIN m2
         /\ m1.email = m2.email) => m1 = m2

\* C13: every mentee record (pk = sk) has a status, and it is one of the eight
\* of MENTEE_STATUS, after any sequence of createMentee, updateMenteeStatus
\* and edit-mentee actions.
C13_MenteeStatusAmongEight ==
    \A m \in mentees : isMenteeItem(m) =>
        "status" \in DOMAIN m /\ m.status \in MENTEE_STATUS

\* the records of the two identity tables that belong to other users than id
OtherUsers(table, id) == {u \in table : u.id # id}
OtherPasswords(table, id) == {p \in table : p.userId # id}

\* deleteUser(id) has removed the user: no record of id, the others as before
UserRemoved(id) ==
    /\ \A u \in users' : u.id # id
    /\ \A p \in passwords' : p.userId # id
    /\ OtherUsers(users', id) = OtherUsers(users, id)
    /\ OtherPasswords(passwords', id) = OtherPasswords(passwords, id)

\* C14: once deleteUser(id), or deleteUserByEmail(e) with e the e-mail stored
\* for the user, has returned, neither users nor passwords holds a record of
\* that user, and the records of every other user are as they were.
C14_DeleteUserRemovesBoth ==
    [][ /\ \A id \in UserIds :
              last' = [op |-> "deleteUser", id |-> id] => UserRemoved(id)
        /\ \A e \in Emails : \A u \in users :
              (last' = [op |-> "deleteUserByEmail", email |-> e] /\ u.email = e)
                  => UserRemoved(u.id) ]_vars

\* a user has been deleted beside another one, who still has both records
C14_Witness ==
    /\ last.op \in {"deleteUser", "deleteUserByEmail"}
    /\ \E u \in users : \E p \in passwords : p.userId = u.id

-----------------------------------------------------------------------------
(* The status lifecycle: updateMenteeStatus over all of MENTEE_STATUS      *)

PlainNewMentee ==
    [email |-> <<"a", "b">>, buddyId |-> email2UserId(<<"a", "b">>)]

NextStatus ==
    \/ CreateMentee(PlainNewMentee)
    \/ CreateNote(cuid(1), "c1", email2UserId(<<"a", "b">>))
    \/ \E id \in CuidInputs, st \in MENTEE_STATUS : UpdateMenteeStatus(id, st)

\* mentees and their notes under status updates to any of the eight statuses
SpecStatus == Init /\ [][NextStatus]_vars

\* the mentee record of id in a mentees table
MenteeRecordIn(table, id) ==
    First({i \in table : i.pk = id2pk(id) /\ i.sk = id2pk(id)})

\* C15: updateMenteeStatus(id, s) on an existing mentee sets the status of the
\* record pk = sk = "Mentee#"+id to s and changes nothing else: not another
\* attribute of that record, not a note of that mentee, not another record of
\* mentees, users or passwords.
C15_UpdateStatusChangesOnlyStatus ==
    [][ \A id \in CuidInputs : \A s \in MENTEE_STATUS :
          (/\ last' = [op |-> "updateMenteeStatus", id |-> id, status |-> s]
           /\ ~Falsy(getMenteeById(id)))
          => LET old == getMenteeById(id)
                 new == MenteeRecordIn(mentees', id)
             IN  /\ ~Falsy(new)
                 /\ DOMAIN new = DOMAIN old \cup {"status"}
                 /\ new.status = s
                 /\ Without(new, {"status"}) = Without(old, {"status"})
                 /\ mentees' \ {new} = mentees \ {old}
                 /\ users' = users
                 /\ passwords' = passwords ]_vars

\* a created mentee that has a note has been given another status
C15_Witness ==
    /\ last.op = "updateMenteeStatus"
    /\ \E m \in mentees :
          /\ isMenteeItem(m) /\ m.pk = id2pk(last.id)
          /\ "email" \in DOMAIN m
          /\ m.status = last.status /\ m.status # "assigned"
    /\ getNotesOfMentee(last.id) # {}

-----------------------------------------------------------------------------
(* updateMentee with objects that carry key attributes at run time         *)

\* key attributes an object may carry although the type Mentee has none
KeyExtras ==
    {NoExtra} \cup {[pk |-> id2pk(o), sk |-> id2pk(o)] : o \in CuidInputs}

UpdatedMenteesWithKeys == {Spread(m, x) : m \in UpdatedMentees, x \in KeyExtras}

NextUpdateKeys ==
    \/ CreateMentee(PlainNewMentee)
    \/ \E id \in CuidInputs : CreateNote(id, "c1", email2UserId(<<"a", "b">>))
    \/ \E m \in UpdatedMenteesWithKeys : UpdateMentee(m)

\* mentees and notes under updateMentee of any such object
SpecUpdateKeys == Init /\ [][NextUpdateKeys]_vars

\* the items of a mentees table other than the mentee record of id
AllButMentee(table, id) ==
    {i \in table : ~(i.pk = id2pk(id) /\ i.sk = id2pk(id))}

\* C16: updateMentee(m) replaces the record under pk = sk = "Mentee#"+m.id,
\* whose id, pk and sk stay those derived from m.id even when m carries pk or
\* sk attributes of its own, and leaves the notes of that mentee and every
\* other record as they were.
C16_UpdateMenteeKeepsKey ==
    [][ \A id \in CuidInputs :
          last' = [op |-> "updateMentee", id |-> id]
          => LET new == MenteeRecordIn(mentees', id)
             IN  /\ ~Falsy(new)
                 /\ new.id = id
                 /\ AllButMentee(mentees', id) = AllButMentee(mentees, id)
                 /\ users' = users
                 /\ passwords' = passwords ]_vars

\* C17: a mentee with any of the eight statuses can be moved to any of the
\* eight by one updateMenteeStatus call: the call is never rejected or ignored,
\* the record has the new status after it and no item is added or lost.
C17_AnyStatusToAnyStatus ==
    \A id \in CuidInputs :
        LET m == getMenteeById(id)
        IN  (~Falsy(m) /\ "status" \in DOMAIN m /\ m.status \in MENTEE_STATUS)
            => \A t \in MENTEE_STATUS :
                  LET table == updateMenteeStatusTable(id, t)
                  IN  /\ MenteeRecordIn(table, id).status = t
                      /\ Cardinality(table) = Cardinality(mentees)

\* a created mentee has been moved back to the status it was created with,
\* while another record has the last status of the enumeration
C17_Witness ==
    /\ last.op = "updateMenteeStatus" /\ last.status = "assigned"
    /\ \E m \in mentees :
          /\ isMenteeItem(m) /\ m.pk = id2pk(last.id)
          /\ "email" \in DOMAIN m /\ m.status = "assigned"
    /\ \E m \in mentees : isMenteeItem(m) /\ m.status = "served"

-----------------------------------------------------------------------------
(* The permission predicates of mentee.server.ts                           *)

CanUserMutateMentee(user) ==
    /\ last' = [op |-> "canUserMutateMentee", user |-> user,
                result |-> canUserMutateMentee(user)]
    /\ UNCHANGED <<inflight, outbox, users, passwords, mentees, assets, cuidCount>>

CanUserMutateNote(user, note) ==
    /\ last' = [op |-> "canUserMutateNote", user |-> user, note |-> note,
                result |-> canUserMutateNote(user, note)]
    /\ UNCHANGED <<inflight, outbox, users, passwords, mentees, assets, cuidCount>>

\* the Note objects handed to canUserMutateNote
NoteObjects ==
    {[id |-> cuid(1), menteeId |-> cuid(2), authorId |-> a, content |-> "c1"] :
        a \in UserIds}

NextPermissions ==
    \/ CreateMentee(PlainNewMentee)
    \/ \E id \in CuidInputs, st \in StatusInputs : UpdateMenteeStatus(id, st)
    \/ \E u \in UserObjects : CanUserMutateMentee(u)
    \/ \E u \in UserObjects, n \in NoteObjects : CanUserMutateNote(u, n)

\* the permission predicates asked in any state of the mentee store
SpecPermissions == Init /\ [][NextPermissions]_vars

\* C18: canUserMutateNote(user, note) is true exactly when user.id equals
\* note.authorId or user.role is HR, PRESIDENT or ADMIN.
C18_MutateNoteIffAuthorOrPrivileged ==
    last.op = "canUserMutateNote" =>
        (last.result = TRUE <=>
            (\/ last.user.id = last.note.authorId
             \/ last.user.role \in {HR, PRESIDENT, ADMIN}))

\* a BUDDY who is not the author has been refused
C18_Witness ==
    /\ last.op = "canUserMutateNote"
    /\ last.user.role = BUDDY
    /\ last.user.id # last.note.authorId
    /\ last.result = FALSE

\* C19: canUserMutateMentee(user) is false exactly when user.role is BUDDY and
\* true for HR, PRESIDENT and ADMIN, whatever the mentee store holds.
C19_MutateMenteeIffNotBuddy ==
    last.op = "canUserMutateMentee" =>
        /\ last.result = FALSE <=> last.user.role = BUDDY
        /\ last.user.role \in {HR, PRESIDENT, ADMIN} => last.result = TRUE

\* a BUDDY has been refused while the store holds a mentee
C19_Witness ==
    /\ last.op = "canUserMutateMentee"
    /\ last.user.role = BUDDY
    /\ last.result = FALSE
    /\ mentees # {}

\* C20: an authorization failure is reported by a returned value and never by
\* a thrown error: the role check of the edit-mentee action, for a BUDDY
\* requester, ends in a returned response.
C20_AuthorizationFailureReturned ==
    (last.op = "editMentee" /\ last.user.role = BUDDY)
        => last.response.kind # "throw"

-----------------------------------------------------------------------------
(* Requests in progress: the awaits of a call are steps of their own, and  *)
(* the steps of different requests interleave.                             *)

\* how many requests are in progress at a time
MaxInflight == 2

\* what a call that throws hands to its caller
Thrown(message) == [js |-> "throw", message |-> message]

\* createUser: the call has started and has hashed the password
CreateUserBegin(email, password, role) ==
    /\ Cardinality(inflight) < MaxInflight
    /\ inflight' = inflight \cup
          {[op |-> "createUser", pc |-> "putPassword",
            newUser |-> [email |-> email, password |-> password,
                         role |-> role]]}
    /\ UNCHANGED <<users, passwords, mentees, assets, cuidCount, last, outbox>>

\* await db.passwords.put({userId, password: hashedPassword})
CreateUserPutPassword(r) ==
    /\ r.op = "createUser" /\ r.pc = "putPassword"
    /\ passwords' = createUserPasswords(r.newUser)
    /\ inflight' = (inflight \ {r}) \cup {[r EXCEPT !.pc = "putUser"]}
    /\ UNCHANGED <<users, mentees, assets, cuidCount, last, outbox>>

\* await db.users.put({id: userId, email: lowerEmail, ...userProps})
CreateUserPutUser(r) ==
    /\ r.op = "createUser" /\ r.pc = "putUser"
    /\ users' = createUserUsers(r.newUser)
    /\ inflight' = (inflight \ {r}) \cup {[r EXCEPT !.pc = "readBack"]}
    /\ UNCHANGED <<passwords, mentees, assets, cuidCount, last, outbox>>

\* const user = await getUserById(userId); invariant(user, ...); return user
createUserReadBack(newUser) ==
    LET user == getUserById(email2UserId(toLowerCase(newUser.email)))
    IN  IF Falsy(user)
        THEN Thrown("User not found after being created. This should not happen")
        ELSE user

CreateUserReadBack(r) ==
    /\ r.op = "createUser" /\ r.pc = "readBack"
    /\ inflight' = inflight \ {r}
    /\ last' = [op |-> "createUser", email |-> r.newUser.email,
                password |-> r.newUser.password,
                result |-> createUserReadBack(r.newUser)]
    /\ UNCHANGED <<users, passwords, mentees, assets, cuidCount, outbox>>

RaceEmails == {<<"a", "b">>, <<"A", "b">>}

NextCreateRace ==
    \/ \E e \in RaceEmails, r \in {BUDDY, HR} : CreateUserBegin(e, "p", r)
    \/ \E r \in inflight : CreateUserPutPassword(r)
    \/ \E r \in inflight : CreateUserPutUser(r)
    \/ \E r \in inflight : CreateUserReadBack(r)
    \/ \E e \in RaceEmails : DeleteUser(email2UserId(e))
    \/ \E e \in RaceEmails : DeleteUserByEmail(e)

\* createUser requests, step by step, among deleteUser calls of other requests
SpecCreateRace == Init /\ [][NextCreateRace]_vars

\* C21: with a read-after-write consistent store that raises no error,
\* createUser never throws "User not found after being created" and returns
\* the user it wrote, whatever other requests do between its steps.
C21_CreateUserReadsBackItsUser ==
    last.op = "createUser" =>
        /\ "message" \notin DOMAIN last.result
        /\ last.result.id = email2UserId(toLowerCase(last.email))

-----------------------------------------------------------------------------
(* deleteUser and deleteMentee, one delete at a time                       *)

\* deleteUser(id): Promise.all has issued both deletes
DeleteUserBegin(id) ==
    /\ Cardinality(inflight) < MaxInflight
    /\ inflight' = inflight \cup
          {[op |-> "deleteUser", id |-> id, todo |-> {"passwords", "users"},
            interrupted |-> FALSE]}
    /\ UNCHANGED <<users, passwords, mentees, assets, cuidCount, last, outbox>>

\* one of the two deletes completes, in either order
DeleteUserDelete(r, table) ==
    /\ r.op = "deleteUser" /\ ~r.interrupted /\ table \in r.todo
    /\ users' = deleteUserStep(table, r.id).users
    /\ passwords' = deleteUserStep(table, r.id).passwords
    /\ inflight' = (inflight \ {r}) \cup {[r EXCEPT !.todo = @ \ {table}]}
    /\ last' = [op |-> "deleteUser.delete", id |-> r.id, table |-> table]
    /\ UNCHANGED <<mentees, assets, cuidCount, outbox>>

\* both deletes have completed: deleteUser returns
DeleteUserReturn(r) ==
    /\ r.op = "deleteUser" /\ ~r.interrupted /\ r.todo = {}
    /\ inflight' = inflight \ {r}
    /\ last' = [op |-> "deleteUser", id |-> r.id]
    /\ UNCHANGED <<users, passwords, mentees, assets, cuidCount, outbox>>

\* deleteMentee(menteeId): the notes are read and one delete per key is issued
DeleteMenteeBegin(menteeId) ==
    /\ Cardinality(inflight) < MaxInflight
    /\ inflight' = inflight \cup
          {[op |-> "deleteMentee", id |-> menteeId,
            todo |-> deleteMenteeKeys(menteeId), interrupted |-> FALSE]}
    /\ UNCHANGED <<users, passwords, mentees, assets, cuidCount, last, outbox>>

\* one of the deletes completes, in any order
DeleteMenteeDelete(r, key) ==
    /\ r.op = "deleteMentee" /\ ~r.interrupted /\ key \in r.todo
    /\ mentees' = Delete(mentees, MenteeKey, key)
    /\ inflight' = (inflight \ {r}) \cup {[r EXCEPT !.todo = @ \ {key}]}
    /\ last' = [op |-> "deleteMentee.delete", id |-> r.id, key |-> key]
    /\ UNCHANGED <<users, passwords, assets, cuidCount, outbox>>

\* every delete has completed: deleteMentee returns
DeleteMenteeReturn(r) ==
    /\ r.op = "deleteMentee" /\ ~r.interrupted /\ r.todo = {}
    /\ inflight' = inflight \ {r}
    /\ last' = [op |-> "deleteMentee", id |-> r.id]
    /\ UNCHANGED <<users, passwords, mentees, assets, cuidCount, outbox>>

\* The request ends while deletes are outstanding: the process stops, or a
\* delete is rejected and Promise.all rejects.  Nothing catches it.
Interrupt(r) ==
    /\ r.op \in {"deleteUser", "deleteMentee"}
    /\ ~r.interrupted /\ r.todo # {}
    /\ inflight' = (inflight \ {r}) \cup {[r EXCEPT !.interrupted = TRUE]}
    /\ last' = [op |-> "interrupt", id |-> r.id]
    /\ UNCHANGED <<users, passwords, mentees, assets, cuidCount, outbox>>

NextPartialDeletes ==
    \/ CreateUser(<<"a", "b">>, "p", BUDDY)
    \/ CreateMentee(PlainNewMentee)
    \/ CreateNote(cuid(1), "c1", email2UserId(<<"a", "b">>))
    \/ DeleteUserBegin(email2UserId(<<"a", "b">>))
    \/ \E r \in inflight, t \in {"passwords", "users"} : DeleteUserDelete(r, t)
    \/ \E r \in inflight : DeleteUserReturn(r)
    \/ DeleteMenteeBegin(cuid(1))
    \/ \E r \in inflight : \E k \in r.todo : DeleteMenteeDelete(r, k)
    \/ \E r \in inflight : DeleteMenteeReturn(r)
    \/ \E r \in inflight : Interrupt(r)

\* the two deletions step by step, with requests that end part-way
SpecPartialDeletes == Init /\ [][NextPartialDeletes]_vars

\* C22: deleteUser and deleteMentee are not atomic and have no rollback.  Each
\* of their deletes is a step of its own that removes its one record and
\* leaves the other records as they are; when the request is interrupted no
\* table changes, and the interrupted request takes no later step.
C22_DeletesNotAtomicNoRollback ==
    [][ /\ \A r \in inflight : r.interrupted => r \in inflight'
        /\ last'.op = "interrupt" =>
              users' = users /\ passwords' = passwords /\ mentees' = mentees
        /\ \A id \in UserIds :
              /\ last' = [op |-> "deleteUser.delete", id |-> id,
                          table |-> "users"]
                   => /\ passwords' = passwords
                      /\ users' = OtherUsers(users, id)
              /\ last' = [op |-> "deleteUser.delete", id |-> id,
                          table |-> "passwords"]
                   => /\ users' = users
                      /\ passwords' = OtherPasswords(passwords, id)
        /\ last'.op = "deleteMentee.delete" =>
              /\ mentees' = Delete(mentees, MenteeKey, last'.key)
              /\ Cardinality(mentees \ mentees') <= 1 ]_vars

\* an interrupted deleteUser has left a password whose user is gone, and an
\* interrupted deleteMentee has left notes whose mentee is gone
C22_Witness ==
    /\ \E r \in inflight :
          /\ r.op = "deleteUser" /\ r.interrupted
          /\ \E p \in passwords : p.userId = r.id
          /\ \A u \in users : u.id # r.id
    /\ \E r \in inflight :
          /\ r.op = "deleteMentee" /\ r.interrupted
          /\ getNotesOfMentee(r.id) # {}
          /\ Falsy(getMenteeById(r.id))

-----------------------------------------------------------------------------
(* Deleting a user only after canUserDeleteUser has allowed it             *)

\* the delete-user request: canUserDeleteUser is asked first, and the request
\* goes on to deleteUser only with canDelete = true
DeleteRequestCheck(loggedInUser, userId) ==
    LET userToDelete == getUserById(userId)
    IN  /\ ~Falsy(userToDelete)
        /\ Cardinality(inflight) < MaxInflight
        /\ canUserDeleteUser(loggedInUser, userToDelete).canDelete
        /\ inflight' = inflight \cup
              {[op |-> "deleteUserRequest", id |-> userId, pc |-> "deleteUser"]}
        /\ last' = [op |-> "canUserDeleteUser", loggedInUser |-> loggedInUser,
                    userToDelete |-> userToDelete,
                    result |-> canUserDeleteUser(loggedInUser, userToDelete)]
        /\ UNCHANGED <<users, passwords, mentees, assets, cuidCount, outbox>>

\* the request calls deleteUser(id), which runs to completion
DeleteRequestDelete(r) ==
    /\ r.op = "deleteUserRequest" /\ r.pc = "deleteUser"
    /\ passwords' = deleteUserPasswords(r.id)
    /\ users' = deleteUserUsers(r.id)
    /\ inflight' = inflight \ {r}
    /\ last' = [op |-> "deleteUser", id |-> r.id]
    /\ UNCHANGED <<mentees, assets, cuidCount, outbox>>

\* a new-mentee request that assigns a buddy whose user record exists
CreateMenteeForBuddy(newMentee) ==
    /\ ~Falsy(getUserById(newMentee.buddyId))
    /\ CreateMentee(newMentee)

\* the requester of the deletion: an HR user other than the target
DeletingUser == [id |-> email2UserId(<<"c", "d">>), role |-> HR]

NextGuardedDelete ==
    \/ CreateUserWithAgreement(<<"a", "b">>, "p", BUDDY, "future")
    \/ DeleteRequestCheck(DeletingUser, email2UserId(<<"a", "b">>))
    \/ \E r \in inflight : DeleteRequestDelete(r)
    \/ CreateMenteeForBuddy(PlainNewMentee)
    \/ \E id \in CuidInputs : DeleteMentee(id)
    \/ \E u \in EditingUsers, id \in CuidInputs, f \in EditForms :
          EditMentee(u, id, f)

\* guarded user deletions among the requests that assign buddies to mentees
SpecGuardedDelete == Init /\ [][NextGuardedDelete]_vars

\* C23: when users are deleted only by requests that obtained canDelete = true
\* and then called deleteUser, the buddyId of every mentee record is the id of
\* an existing user record, in every reachable state.
C23_BuddyOfMenteeExists ==
    \A m \in mentees :
        (isMenteeItem(m) /\ "buddyId" \in DOMAIN m)
            => \E u \in users : u.id = m.buddyId

\* C24: whenever no identity-store call is in progress, after any sequence of
\* completed createUser, updateUser, deleteUser and deleteUserByEmail calls,
\* users holds a record for an id exactly when passwords holds one for it.
C24_UserIffPassword ==
    inflight = {} =>
        /\ \A u \in users : \E p \in passwords : p.userId = u.id
        /\ \A p \in passwords : \E u \in users : u.id = p.userId

\* C25: updateMenteeStatus(id, s) and updateNote({menteeId, noteId, content})
\* never bring a record into existence: when no record exists under the
\* targeted key, the mentees table is left unchanged, and getMenteeById,
\* getNote and getNotesOfMentee still report absence.
C25_UpdateNeverCreates ==
    [][ \A id \in CuidInputs :
          /\ (last'.op = "updateMenteeStatus" /\ last'.id = id
              /\ Falsy(getMenteeById(id)))
                => /\ mentees' = mentees
                   /\ Falsy(MenteeRecordIn(mentees', id))
          /\ (last'.op = "updateNote" /\ last'.id = id
              /\ getNotesOfMentee(id) = {})
                => mentees' = mentees ]_vars

\* the four checks of the edit-mentee action, for a requester and a form
EditChecksPass(user, form) ==
    /\ user.role \in {HR, PRESIDENT, ADMIN}
    /\ Falsy(validateAction(form).errors)
    /\ \E c \in countries : c.label = form.country
    /\ \E b \in users : b.id = email2UserId(form.buddyEmail)

\* C26: the edit-mentee action writes to the mentee store only when the
\* requester is not a BUDDY, the form validates, the country name has a code
\* and the named buddy exists; otherwise no record of any table changes, and
\* a failed validation or an unknown country is answered with status 400 and
\* an errors object.
C26_EditWritesOnlyWhenChecksPass ==
    [][ last'.op = "editMentee" =>
          /\ users' = users /\ passwords' = passwords
          /\ ~EditChecksPass(last'.user, last'.form) => mentees' = mentees
          /\ (/\ last'.user.role # BUDDY
              /\ \/ ~Falsy(validateAction(last'.form).errors)
                 \/ ~\E c \in countries : c.label = last'.form.country)
                => /\ last'.response.kind = "json"
                   /\ last'.response.status = 400
                   /\ ~Falsy(last'.response.errors) ]_vars

\* an edit that passed every check has written the form to the mentee record
C26_Witness ==
    /\ last.op = "editMentee"
    /\ last.response.kind = "redirect"
    /\ \E m \in mentees :
          /\ isMenteeItem(m) /\ m.pk = id2pk(last.id)
          /\ "countryCode" \in DOMAIN m /\ m.email = last.form.email

-----------------------------------------------------------------------------
(* routes/dashboard/mentees/email.tsx: the send-email action               *)

\* the index of the first separator in s, or 0
RECURSIVE indexOf(_, _, _)
indexOf(s, sep, from) ==
    IF from > Len(s) THEN 0
    ELSE IF s[from] = sep THEN from
    ELSE indexOf(s, sep, from + 1)

\* String.prototype.split(","): the pieces between the commas, at least one
RECURSIVE split(_)
split(s) ==
    LET i == indexOf(s, ",", 1)
    IN  IF i = 0
        THEN <<s>>
        ELSE <<SubSeq(s, 1, i - 1)>> \o split(SubSeq(s, i + 1, Len(s)))

\* String.prototype.trim(): without the blanks at either end
RECURSIVE trim(_)
trim(s) ==
    IF s = <<>> THEN s
    ELSE IF s[1] = " " THEN trim(Tail(s))
    ELSE IF s[Len(s)] = " " THEN trim(SubSeq(s, 1, Len(s) - 1))
    ELSE s

\* formData.recipients.split(",").map(s => s.trim())
recipientEmailsOf(recipients) ==
    LET pieces == split(recipients)
    IN  [i \in DOMAIN pieces |-> trim(pieces[i])]

\* the property names every object literal inherits from Object.prototype
ObjectPrototypeKeys ==
    {<<"constructor">>, <<"toString">>, <<"valueOf">>, <<"hasOwnProperty">>,
     <<"__proto__">>}

\* the own keys of userMenteeEmails: acc[curr.email] = true for each mentee
userMenteeEmailsOf(userMentees) ==
    {IF "email" \in DOMAIN m THEN m.email ELSE <<"undefined">> :
        m \in userMentees}

\* userMenteeEmails[email] is truthy: an own key, or an inherited property
hasTruthyProperty(ownKeys, key) ==
    key \in ownKeys \/ key \in ObjectPrototypeKeys

\* recipientEmails.every(email => userMenteeEmails[email])
areRecipientsValid(recipientEmails, userMentees) ==
    \A i \in DOMAIN recipientEmails :
        hasTruthyProperty(userMenteeEmailsOf(userMentees), recipientEmails[i])

\* sanitize-html: elements that are not allowed are dropped
sanitizeHtml(body) == SelectSeq(body, LAMBDA t : t # "<script>")

\* sanitizedBody.match(/{{\s*[\w.]+\s*}}/g): the matches, or null
bodyVariablesOf(sanitizedBody) ==
    LET found == SelectSeq(sanitizedBody,
                           LAMBDA t : t \in {"{{firstName}}", "{{password}}"})
    IN  IF found = <<>> THEN Null ELSE [matches |-> found]

\* utils/email-service areAllowedVariables
areAllowedVariables(variables) ==
    \A i \in DOMAIN variables : variables[i] \in {"{{firstName}}"}

\* utils/email-service resolveBody: the body with its variables bound to the
\* attributes of the recipient
resolveBody(body, recipient) == [body |-> body, recipient |-> recipient.pk]

\* utils/validation validateAction with the schema of the send-email form
validateEmailForm(form) ==
    IF form.recipients = <<>>
    THEN [formData |-> Null, errors |-> [recipients |-> "Recipient is required"]]
    ELSE IF form.subject = ""
    THEN [formData |-> Null, errors |-> [subject |-> "Title is required"]]
    ELSE IF form.body = <<>>
    THEN [formData |-> Null, errors |-> [body |-> "Body is required"]]
    ELSE [formData |-> form, errors |-> Null]


\* userMentees.find(mentee => mentee.email === email)
findRecipient(userMentees, email) ==
    First({m \in userMentees : "email" \in DOMAIN m /\ m.email = email})

\* the e-mail the action hands to sendEmail for all recipients at once
plainEmail(user, form, recipientEmails) ==
    [to |-> recipientEmails, subject |-> form.subject,
     htmlBody |-> sanitizeHtml(form.body),
     senderName |-> user.firstName, replyTo |-> user.email]

\* the e-mail the action hands to sendEmail for one recipient
resolvedEmail(user, form, userMentees, email) ==
    [to |-> <<email>>, subject |-> form.subject,
     htmlBody |-> resolveBody(sanitizeHtml(form.body),
                              findRecipient(userMentees, email)),
     senderName |-> user.firstName, replyTo |-> user.email]

\* recipientEmails.map(...): sendEmail is called for one recipient after the
\* other, and invariant(recipient) throws at the first that is not found
resolvedEmails(user, form, userMentees, recipientEmails) ==
    LET missing == {i \in DOMAIN recipientEmails :
                      Falsy(findRecipient(userMentees, recipientEmails[i]))}
        upTo == IF missing = {}
                THEN Len(recipientEmails)
                ELSE (CHOOSE i \in missing : \A j \in missing : i <= j) - 1
    IN  [i \in 1..upTo |->
            resolvedEmail(user, form, userMentees, recipientEmails[i])]

\* The action up to its await of the sends: the e-mails it hands to
\* sendEmail, and its response unless it goes on to await them.
emailAction(user, form) ==
    LET recipientEmails == recipientEmailsOf(form.recipients)
        userMentees == getMenteeListItems(user.id)
        bodyVariables == bodyVariablesOf(sanitizeHtml(form.body))
        none == <<>>
    IN  IF ~Falsy(validateEmailForm(form).errors)
        THEN [emails |-> none, awaits |-> FALSE,
              response |-> [kind |-> "json", status |-> 400,
                            errors |-> validateEmailForm(form).errors]]
        ELSE IF ~areRecipientsValid(recipientEmails, userMentees)
        THEN [emails |-> none, awaits |-> FALSE,
              response |-> [kind |-> "json", status |-> 400,
                            errors |-> [recipients |-> "Invalid recipients"]]]
        ELSE IF Falsy(bodyVariables)
        THEN [emails |-> <<plainEmail(user, form, recipientEmails)>>,
              awaits |-> TRUE,
              response |-> [kind |-> "redirect", to |-> "/dashboard/mentees"]]
        ELSE IF ~areAllowedVariables(bodyVariables.matches)
        THEN [emails |-> none, awaits |-> FALSE,
              response |-> [kind |-> "json", status |-> 400,
                            errors |-> [body |-> "Invalid variables in body",
                                        bodyVariables |->
                                            bodyVariables.matches]]]
        ELSE IF \E i \in DOMAIN recipientEmails :
                   Falsy(findRecipient(userMentees, recipientEmails[i]))
        THEN [emails |-> resolvedEmails(user, form, userMentees,
                                        recipientEmails),
              awaits |-> FALSE,
              response |-> [kind |-> "throw",
                            message |-> "Recipient not found"]]
        ELSE [emails |-> resolvedEmails(user, form, userMentees,
                                        recipientEmails),
              awaits |-> TRUE,
              response |-> [kind |-> "redirect", to |-> "/dashboard/mentees"]]

\* how many e-mails are handed to sendEmail in a behaviour
MaxEmails == 2

\* await sendEmail(...) / await Promise.all(promises) without waiting
promiseAllSettledAtOnce(awaiting) == TRUE

\* await sendEmail(...) / await Promise.all(promises): every send has completed
promiseAllSettled(awaiting) == awaiting = {}

\* The action runs up to its await: it answers at once, or it has handed its
\* e-mails to sendEmail and waits for them.
SendEmailActionBegin(user, form) ==
    LET run == emailAction(user, form)
    IN  /\ \A r \in inflight : r.op # "sendEmailAction"
        /\ Cardinality(inflight) < MaxInflight
        /\ Len(outbox) + Len(run.emails) <= MaxEmails
        /\ outbox' = outbox \o run.emails
        /\ IF run.awaits
           THEN /\ inflight' = inflight \cup
                      {[op |-> "sendEmailAction", user |-> user, form |-> form,
                        awaiting |-> (Len(outbox) + 1)..Len(outbox')]}
                /\ last' = [op |-> "sendEmailAction.begin", user |-> user,
                            form |-> form]
           ELSE /\ inflight' = inflight
                /\ last' = [op |-> "sendEmailAction", user |-> user,
                            form |-> form, response |-> run.response]
        /\ UNCHANGED <<users, passwords, mentees, assets, cuidCount>>

\* utils/email-service sendEmail: one of the sends the action waits for
\* completes
SendEmailCompletes(r, i) ==
    /\ r.op = "sendEmailAction" /\ i \in r.awaiting
    /\ inflight' = (inflight \ {r}) \cup {[r EXCEPT !.awaiting = @ \ {i}]}
    /\ UNCHANGED <<users, passwords, mentees, assets, cuidCount, last, outbox>>

\* return redirect("/dashboard/mentees")
SendEmailActionReturn(r) ==
    /\ r.op = "sendEmailAction"
    /\ promiseAllSettled(r.awaiting)
    /\ inflight' = inflight \ {r}
    /\ last' = [op |-> "sendEmailAction", user |-> r.user, form |-> r.form,
                response |-> [kind |-> "redirect",
                              to |-> "/dashboard/mentees"]]
    /\ UNCHANGED <<users, passwords, mentees, assets, cuidCount, outbox>>

\* the user requireUser(request) hands to the action
EmailingUser ==
    [id |-> email2UserId(<<"a", "b">>), role |-> BUDDY, firstName |-> "F",
     email |-> <<"a", "b">>]

RecipientInputs ==
    {<<>>, <<"a", "b">>, <<"a", "b", ",", " ", "c", "d">>, <<"z", "z">>,
     <<"constructor">>, <<"a", "b", ",", "constructor">>}

BodyInputs ==
    {<<"hello", "<script>">>, <<"hello", "{{firstName}}">>,
     <<"{{firstName}}", "{{password}}">>}

EmailForms == [recipients : RecipientInputs, subject : {"s"}, body : BodyInputs]

\* the mentees of the user and of another buddy
MenteesForEmail ==
    {[email |-> <<"a", "b">>, buddyId |-> email2UserId(<<"a", "b">>)],
     [email |-> <<"c", "d">>, buddyId |-> email2UserId(<<"a", "b">>)],
     [email |-> <<"c", "d">>, buddyId |-> email2UserId(<<"c", "d">>)]}

NextEmail ==
    \/ \E m \in MenteesForEmail : CreateMentee(m)
    \/ \E f \in EmailForms : SendEmailActionBegin(EmailingUser, f)
    \/ \E r \in inflight : \E i \in r.awaiting : SendEmailCompletes(r, i)
    \/ \E r \in inflight : SendEmailActionReturn(r)

\* the send-email action over the mentees of the requester
SpecEmail == Init /\ [][NextEmail]_vars

\* the e-mails of the mentees assigned to the user: records with buddyId = id
AssignedMenteeEmails(user) ==
    {m.email : m \in {i \in mentees : /\ isMenteeItem(i)
                                     /\ "buddyId" \in DOMAIN i
                                     /\ "email" \in DOMAIN i
                                     /\ i.buddyId = user.id}}

\* every entry of the comma-separated list is the e-mail of such a mentee
RecipientsAssigned(user, form) ==
    \A i \in DOMAIN recipientEmailsOf(form.recipients) :
        recipientEmailsOf(form.recipients)[i] \in AssignedMenteeEmails(user)

\* the step is the send-email action running up to its await or its answer
EmailActionRuns ==
    \/ last'.op = "sendEmailAction" /\ last'.response.kind # "redirect"
    \/ last'.op = "sendEmailAction.begin" /\ outbox' # outbox

\* C27: when an entry of the recipients list of a valid form is not the e-mail
\* of a mentee assigned to the logged-in user, whatever string the entry is,
\* the send-email action answers 400 "Invalid recipients" and sends no e-mail.
C27_OnlyAssignedRecipients ==
    [][ (/\ EmailActionRuns
         /\ Falsy(validateEmailForm(last'.form).errors)
         /\ ~RecipientsAssigned(last'.user, last'.form))
        => /\ last'.op = "sendEmailAction"
           /\ last'.response.kind = "json"
           /\ last'.response.status = 400
           /\ last'.response.errors = [recipients |-> "Invalid recipients"]
           /\ outbox' = outbox ]_vars

\* the step is the send-email action, by a user and with a form that passes
\* validation and names only mentees assigned to the user, running up to its
\* await or its answer
ValidEmailActionRuns ==
    /\ EmailActionRuns
    /\ Falsy(validateEmailForm(last'.form).errors)
    /\ RecipientsAssigned(last'.user, last'.form)

\* the e-mails the step hands to sendEmail
SentInStep == SubSeq(outbox', Len(outbox) + 1, Len(outbox'))

\* the e-mail is addressed to one recipient and its body is resolved with a
\* mentee of the user that has the recipient's e-mail
IndividuallyResolved(e, user, form, email) ==
    /\ e.to = <<email>>
    /\ e.subject = form.subject
    /\ e.htmlBody \in
          {resolveBody(sanitizeHtml(form.body), m) :
             m \in {i \in mentees : /\ isMenteeItem(i)
                                   /\ "buddyId" \in DOMAIN i
                                   /\ "email" \in DOMAIN i
                                   /\ i.buddyId = user.id
                                   /\ i.email = email}}

\* C28: in the send-email action with valid recipients, a variable of the
\* sanitized body that is not allowed is answered 400 with no e-mail sent;
\* when all variables are allowed exactly one individually resolved e-mail is
\* sent per recipient; a body without variables is sent as exactly one e-mail
\* addressed to all recipients; and the action returns its redirect to
\* /dashboard/mentees only when every send it waits for has completed.
C28_SendsThenRedirects ==
    [][ /\ ValidEmailActionRuns =>
            LET recipientEmails == recipientEmailsOf(last'.form.recipients)
                bodyVariables ==
                    bodyVariablesOf(sanitizeHtml(last'.form.body))
            IN  IF Falsy(bodyVariables)
                THEN /\ outbox' = Append(outbox, SentInStep[1])
                     /\ SentInStep[1].to = recipientEmails
                     /\ SentInStep[1].htmlBody = sanitizeHtml(last'.form.body)
                ELSE IF \E i \in DOMAIN bodyVariables.matches :
                           bodyVariables.matches[i] # "{{firstName}}"
                THEN /\ last'.op = "sendEmailAction"
                     /\ last'.response.kind = "json"
                     /\ last'.response.status = 400
                     /\ outbox' = outbox
                ELSE /\ Len(SentInStep) = Len(recipientEmails)
                     /\ outbox' = outbox \o SentInStep
                     /\ \A i \in DOMAIN recipientEmails :
                           IndividuallyResolved(SentInStep[i], last'.user,
                                                last'.form, recipientEmails[i])
        /\ Cardinality(inflight') < Cardinality(inflight) =>
            /\ last'.response = [kind |-> "redirect",
                                 to |-> "/dashboard/mentees"]
            /\ \A r \in inflight \ inflight' : r.awaiting = {}
        /\ (last' # last /\ last'.op = "sendEmailAction"
                         /\ last'.response.kind = "redirect") =>
            \E r \in inflight \ inflight' : r.awaiting = {} ]_vars

\* the action has redirected after one resolved e-mail went to each of two
\* recipients
C28_Witness ==
    /\ last.op = "sendEmailAction"
    /\ last.response.kind = "redirect"
    /\ inflight = {}
    /\ Len(outbox) = 2
    /\ outbox[1].to = << <<"a", "b">> >>
    /\ outbox[2].to = << <<"c", "d">> >>
    /\ outbox[1].htmlBody # outbox[2].htmlBody

=============================================================================
